---- MODULE Spec2Model ----
(***************************************************************************)
(* Model of src/server.js: the two server variants kept in that file (the  *)
(* Supabase variant, lines 1-156, and the pg variant, lines 158-296) run   *)
(* against the same users/payments store and the same payment provider.    *)
(* Each HTTP handler is an action; the Supabase webhook handler is split   *)
(* at its three awaits (provider fetch, payments insert, users update) so  *)
(* that concurrently handled deliveries interleave as they do in Node.     *)
(***************************************************************************)
EXTENDS Integers, Sequences, FiniteSets, TLC

\* ------------------------------------------------------------------ bounds
\* Notifications the provider sends in one run (it may re-send any of them).
MaxNotifications == 3

\* Days the clock runs for.
MaxTime == 8

\* ------------------------------------------------------------ value spaces
Emails == {"a@x", "b@x"}
Passwords == {"pw1", "pw2"}
Clients == {"c1"}
Variants == {"supabase", "pg"}
PayNums == {1}
\* Webhook requests the server may be handling at the same time.
Deliveries == {1, 2}
Statuses == {"pending", "approved", "rejected"}

NoUser == 0
NoId == <<"none", 0>>
NoPayment == [status |-> "none", userId |-> NoUser]
NoHash == <<>>
\* A user object as it travels in a response body or into createToken.
NoRow == [id |-> 0, email |-> "", is_paid |-> FALSE, password_hash |-> NoHash]
\* A token payload: the object that was signed, with iat and exp.
NoClaim == [id |-> 0, email |-> "", is_paid |-> FALSE, password_hash |-> NoHash,
            iat |-> 0, exp |-> 0]
NoSig == [key |-> "", of |-> NoClaim]
\* Text that is no JWT (also: no token at all).
NoToken == [claim |-> NoClaim, sig |-> NoSig]
\* A response: status, body.error, body.token, body.user and, for
\* /pay/create, the metadata.userId that was handed to the provider.
NoResp == [status |-> 0, error |-> "", token |-> NoToken, user |-> NoRow, meta |-> NoUser]

\* JSON scalars that can stand in data.id: a number or a string of digits.
DataIds == {<<k, n>> : k \in {"num", "str"}, n \in PayNums}

VARIABLES users, payments, provider, session, resp, wh, delivered, now

vars == <<users, payments, provider, session, resp, wh, delivered, now>>

\* ----------------------------------------------------------------- helpers
\* bcrypt.hashSync(password, 10) / bcrypt.compareSync(password, hash)
HashSync(password) == <<"bcrypt", 10, password>>
CompareSync(password, hash) == hash = HashSync(password)

\* String(data.id): a number and its decimal string give the same text.
String(x) == <<"str", x[2]>>

\* The payment the provider resolves an id to (the id is put in a URL path).
PayNumOf(x) == x[2]

UserIds == DOMAIN users

FindUserByEmail(email) == {i \in UserIds : users[i].email = email}

\* ------------------------------------------------------------ token service
JWT_SECRET == "JWT_SECRET"

\* expiresIn: "7d", in days (the unit of the clock).
TokenTTL == 7

\* The HS256 signature of a payload under a key: equal for equal payload and
\* key, different otherwise.
Sign(claim, key) == [key |-> key, of |-> claim]

\* jwt.sign(payload, key, {expiresIn: "7d"}) at time t: the payload's own
\* fields plus iat and exp = iat + 7d, and the signature over all of them.
jwtSign(payload, key, t) ==
  LET claim == [id |-> payload.id, email |-> payload.email, is_paid |-> payload.is_paid,
                password_hash |-> payload.password_hash, iat |-> t, exp |-> t + TokenTTL]
  IN [claim |-> claim, sig |-> Sign(claim, key)]

\* createToken(user)
createToken(user) == jwtSign(user, JWT_SECRET, now)

\* (a verification that ignores exp)
jwtVerifyIgnoreExpiration(token, key, t) ==
  IF token.sig # Sign(token.claim, key)
  THEN [ok |-> FALSE, claim |-> NoClaim]
  ELSE [ok |-> TRUE, claim |-> token.claim]

\* jwt.verify(token, key) at time t: throws for text that is no JWT, for a
\* signature that is not the payload's under the key, and once t >= exp;
\* returns the payload otherwise.
jwtVerify(token, key, t) ==
  IF token.sig # Sign(token.claim, key)
  THEN [ok |-> FALSE, claim |-> NoClaim]
  ELSE IF t >= token.claim.exp
  THEN [ok |-> FALSE, claim |-> NoClaim]
  ELSE [ok |-> TRUE, claim |-> token.claim]

Verifies(token) == jwtVerify(token, JWT_SECRET, now).ok

\* The token with its signature segment altered.
TamperSig(token) == [token EXCEPT !.sig.key = "altered"]

\* The Authorization header a client sends: none, its token without the
\* "Bearer " prefix, "Bearer " and text that is no JWT, "Bearer " and its token
\* with the signature altered, "Bearer " and its token.
HeaderKinds == {"none", "raw", "malformed", "altered", "bearer"}

Authorization(c, kind) ==
  CASE kind = "none" -> [scheme |-> "", token |-> NoToken]
    [] kind = "raw" -> [scheme |-> "", token |-> session[c]]
    [] kind = "malformed" -> [scheme |-> "Bearer ", token |-> NoToken]
    [] kind = "altered" -> [scheme |-> "Bearer ", token |-> TamperSig(session[c])]
    [] kind = "bearer" -> [scheme |-> "Bearer ", token |-> session[c]]

\* (a gate that takes the token with or without the prefix)
authGateAnyScheme(auth) ==
  LET r == jwtVerify(auth.token, JWT_SECRET, now)
  IN IF r.ok
     THEN [next |-> TRUE, status |-> 0, error |-> "", user |-> r.claim]
     ELSE [next |-> FALSE, status |-> 401, error |-> "Invalid token", user |-> NoClaim]

\* authRequired(req, res, next) for the header auth: the 401 it sends, or
\* next() with req.user the verified payload.
authGate(auth) ==
  IF auth.scheme # "Bearer "
  THEN [next |-> FALSE, status |-> 401, error |-> "Unauthorized", user |-> NoClaim]
  ELSE LET r == jwtVerify(auth.token, JWT_SECRET, now)
       IN IF r.ok
          THEN [next |-> TRUE, status |-> 0, error |-> "", user |-> r.claim]
          ELSE [next |-> FALSE, status |-> 401, error |-> "Invalid token", user |-> NoClaim]

\* The header of a client that does nothing unusual: its token as a Bearer
\* token, or no Authorization header when it holds none.
OwnHeader(c) == Authorization(c, IF session[c] = NoToken THEN "none" ELSE "bearer")

\* authRequired on such a request, and the req.user it leaves.
authRequired(c) == authGate(OwnHeader(c)).next

ReqUser(c) == authGate(OwnHeader(c)).user

\* (a gate that reads the stored flag instead of the claim)
paidRequiredLive(user) == users[user.id].is_paid

\* paidRequired: !req.user?.is_paid -> 402
paidRequired(user) == user.is_paid

\* --------------------------------------------------------------- the store
\* (an insert that replaces the row stored under the email)
UpsertUser(us, row) ==
  IF \E i \in DOMAIN us : us[i].email = row.email
  THEN [error |-> "",
        rows |-> [i \in DOMAIN us |-> IF us[i].email = row.email THEN row ELSE us[i]]]
  ELSE [error |-> "", rows |-> Append(us, row)]

\* users.insert(...).select().single() / INSERT ... RETURNING: the email
\* column is unique; a second row with the same email is refused with error
\* 23505 ("duplicate key value ...") and the table is left as it was.
EmailTaken(email) == FindUserByEmail(email) # {}

\* The users table's uniqueness constraint on the email column.
EmailKeyTaken(us, email) == \E i \in DOMAIN us : us[i].email = email

InsertUser(us, row) ==
  IF EmailKeyTaken(us, row.email)
  THEN [error |-> "23505", rows |-> us]
  ELSE [error |-> "", rows |-> Append(us, row)]

\* The row register inserts. The Supabase variant writes is_paid: false; the
\* pg variant names only email and password_hash and leaves is_paid to the
\* column default.
IsPaidDefault == FALSE

\* (a register that copies is_paid from the request body)
NewUserRowFromBody(v, email, hash, body) ==
  [email |-> email, password_hash |-> hash, is_paid |-> body]

NewUserRow(v, email, hash, body) ==
  [email |-> email, password_hash |-> hash,
   is_paid |-> IF v = "supabase" THEN FALSE ELSE IsPaidDefault]

\* The payments table's uniqueness constraint on the provider payment
\* identifier column.
PaymentKeyTaken(ps, key) == \E r \in ps : r.mp_payment_id = key

\* (an upsert: a row whose key is taken replaces the one stored)
UpsertPayment(ps, row) ==
  {r \in ps : r.mp_payment_id # row.mp_payment_id} \cup {row}

\* payments.insert([row]): a plain insert; a row whose key is taken is refused
\* by the store and the table is left as it was.
InsertPayment(ps, row) ==
  IF PaymentKeyTaken(ps, row.mp_payment_id) THEN ps ELSE ps \cup {row}

\* (an update that flips the flag instead of setting it)
SetUserPaidToggle(us, userId) ==
  [i \in DOMAIN us |-> IF i = userId THEN [us[i] EXCEPT !.is_paid = ~@] ELSE us[i]]

\* users.update({is_paid: true}).eq("id", userId)
SetUserPaid(us, userId) ==
  [i \in DOMAIN us |-> IF i = userId THEN [us[i] EXCEPT !.is_paid = TRUE] ELSE us[i]]

\* ------------------------------------------------------------------- Init
IdleWh ==
  [pc |-> "idle", variant |-> "supabase", nid |-> 0, type |-> "", id |-> NoId,
   advisory |-> "none", status |-> "none", userId |-> NoUser, arrived |-> NoUser,
   ins |-> "none", wrote |-> FALSE, failed |-> FALSE, resp |-> 0]

Init ==
  /\ users = <<>>
  /\ payments = {}
  /\ provider = [n \in PayNums |-> NoPayment]
  /\ session = [c \in Clients |-> NoToken]
  /\ resp = [c \in Clients |-> NoResp]
  /\ wh = [d \in Deliveries |-> IdleWh]
  /\ delivered = 0
  /\ now = 0

\* The response to client c.
Reply(c, r) == resp' = [resp EXCEPT ![c] = r]

\* res.status(status).json({error})
Err(status, error) == [NoResp EXCEPT !.status = status, !.error = error]

\* A SELECT of id, email, is_paid (and created_at): the row without its hash.
PublicRow(us, i) ==
  [id |-> i, email |-> us[i].email, is_paid |-> us[i].is_paid, password_hash |-> NoHash]

\* SELECT * / insert(...).select(): the whole row.
WholeRow(us, i) ==
  [id |-> i, email |-> us[i].email, is_paid |-> us[i].is_paid,
   password_hash |-> us[i].password_hash]

\* ------------------------------------------------------- POST /auth/register
\* The token is made of {id, email, is_paid} in both variants; the body's
\* user is the whole row in the Supabase variant, the RETURNING columns in the
\* pg variant.
Register(c, v, email, password, body) ==
  /\ UNCHANGED <<payments, provider, wh, delivered, now>>
  /\ IF email = "" \/ password = ""
     THEN /\ Reply(c, Err(400, "Email and password required"))
          /\ UNCHANGED <<users, session>>
     ELSE LET res == InsertUser(users, NewUserRow(v, email, HashSync(password), body))
          IN IF res.error = "23505"
             THEN /\ Reply(c, Err(409, "Email already registered"))
                  /\ UNCHANGED <<users, session>>
             ELSE /\ users' = res.rows
                  /\ LET id == CHOOSE i \in DOMAIN res.rows : res.rows[i].email = email
                         token == createToken(PublicRow(res.rows, id))
                     IN /\ session' = [session EXCEPT ![c] = token]
                        /\ Reply(c, [NoResp EXCEPT !.status = 200, !.token = token,
                                       !.user = IF v = "supabase" THEN WholeRow(res.rows, id)
                                                ELSE PublicRow(res.rows, id)])

\* ---------------------------------------------------------- POST /auth/login
\* The Supabase variant signs {id, email, is_paid}; the pg variant signs the
\* whole row returned by SELECT *.
LoginClaim(v, i) == IF v = "pg" THEN WholeRow(users, i) ELSE PublicRow(users, i)

\* (a login that tells an unknown email from a wrong password)
LoginResultNotFound(v, email, password) ==
  IF email = "" \/ password = ""
  THEN Err(400, "Email and password required")
  ELSE IF ~EmailTaken(email)
  THEN Err(404, "User not found")
  ELSE LET i == CHOOSE i \in FindUserByEmail(email) : TRUE
       IN IF ~CompareSync(password, users[i].password_hash)
          THEN Err(401, "Invalid credentials")
          ELSE [NoResp EXCEPT !.status = 200, !.token = createToken(LoginClaim(v, i)),
                              !.user = WholeRow(users, i)]

\* The response of login.
LoginResult(v, email, password) ==
  IF email = "" \/ password = ""
  THEN Err(400, "Email and password required")
  ELSE IF ~EmailTaken(email)
  THEN Err(401, "Invalid credentials")
  ELSE LET i == CHOOSE i \in FindUserByEmail(email) : TRUE
       IN IF ~CompareSync(password, users[i].password_hash)
          THEN Err(401, "Invalid credentials")
          ELSE [NoResp EXCEPT !.status = 200, !.token = createToken(LoginClaim(v, i)),
                              !.user = WholeRow(users, i)]

\* The handler reads the users table and writes nothing; the client keeps
\* the token it is sent.
Login(c, v, email, password) ==
  /\ UNCHANGED <<users, payments, provider, wh, delivered, now>>
  /\ LET r == LoginResult(v, email, password)
     IN /\ Reply(c, r)
        /\ session' = IF r.status = 200 THEN [session EXCEPT ![c] = r.token] ELSE session

\* -------------------------------------------------------------- GET /auth/me
\* The request carries the header of the given kind.
Me(c, kind) ==
  /\ UNCHANGED <<users, payments, provider, session, wh, delivered, now>>
  /\ LET g == authGate(Authorization(c, kind))
     IN IF ~g.next
        THEN Reply(c, Err(g.status, g.error))
        ELSE Reply(c, [NoResp EXCEPT !.status = 200, !.user = PublicRow(users, g.user.id)])

\* ---------------------------------------------------------- POST /pay/create
\* (an intent attributed to the user the body names)
IntentMetadataFromBody(user, body) == IF body # NoUser THEN body ELSE user.id

\* metadata: {userId: req.user.id}; body is the userId the request body names.
IntentMetadata(user, body) == user.id

\* The provider call may fail (500).
PayCreate(c, v, body, providerUp) ==
  /\ UNCHANGED <<users, payments, provider, session, wh, delivered, now>>
  /\ LET g == authGate(OwnHeader(c))
     IN IF ~g.next
        THEN Reply(c, Err(g.status, g.error))
        ELSE IF ~providerUp
        THEN Reply(c, Err(500, IF v = "supabase" THEN "Mercado Pago error"
                               ELSE "Erro ao criar pagamento"))
        ELSE Reply(c, [NoResp EXCEPT !.status = 200, !.meta = IntentMetadata(g.user, body)])

\* --------------------------------------------------------- GET /pro/feature
ProFeature(c) ==
  /\ UNCHANGED <<users, payments, provider, session, wh, delivered, now>>
  /\ LET g == authGate(OwnHeader(c))
     IN IF ~g.next
        THEN Reply(c, Err(g.status, g.error))
        ELSE IF ~paidRequired(g.user)
        THEN Reply(c, Err(402, "Payment required"))
        ELSE Reply(c, [NoResp EXCEPT !.status = 200])

\* ------------------------------------------------------------------ the clock
\* A day passes.
Tick ==
  /\ now < MaxTime
  /\ now' = now + 1
  /\ UNCHANGED <<users, payments, provider, session, resp, wh, delivered>>

\* ------------------------------------------------------ the payment provider
\* A payment comes into existence at the provider, carrying the metadata of
\* an intent some registered user opened through /pay/create, or none (a
\* payment made outside the app).
ProviderNewPayment(n, meta) ==
  /\ provider[n] = NoPayment
  /\ meta \in UserIds \cup {NoUser}
  /\ provider' = [provider EXCEPT ![n] = [status |-> "pending", userId |-> meta]]
  /\ UNCHANGED <<users, payments, session, resp, wh, delivered, now>>

\* The provider settles a pending payment.
ProviderSettle(n, st) ==
  /\ provider[n] # NoPayment
  /\ provider[n].status = "pending"
  /\ st \in {"approved", "rejected"}
  /\ provider' = [provider EXCEPT ![n].status = st]
  /\ UNCHANGED <<users, payments, session, resp, wh, delivered, now>>

\* The user whose payment the provider already reports approved when a
\* notification for id arrives (NoUser when there is none).
Arrived(type, id) ==
  IF type = "payment" /\ id # NoId /\ provider[PayNumOf(id)].status = "approved"
  THEN provider[PayNumOf(id)].userId
  ELSE NoUser

\* ---------------------------------------- POST /pay/webhook (Supabase variant)
\* (a handler that answers 500 when a call failed)
AckUnlessFailed(w) ==
  [w EXCEPT !.pc = "done", !.resp = IF w.failed THEN 500 ELSE 200, !.nid = 0, !.id = NoId]

\* res.sendStatus(200); the request and its body are gone after the response.
Ack(w) == [w EXCEPT !.pc = "done", !.resp = 200, !.nid = 0, !.id = NoId]

\* (any notification that carries an id)
IsNotificationWithId(type, id) == id # NoId

\* if (type === "payment" && data?.id)
IsPaymentNotification(type, id) == type = "payment" /\ id # NoId

\* (the status the notification's body carries, when it carries one)
StatusFromBody(w, payment) == IF w.advisory # "none" THEN w.advisory ELSE payment.status

\* const status = payment.body.status
FetchedStatus(w, payment) == payment.status

\* (no check of the correlation id)
HasUserIdAlways(userId) == TRUE

\* if (userId)
HasUserId(userId) == userId # NoUser

\* if (status === "approved")
ShouldSetPaid(status) == status = "approved"

\* (a row keyed by the notification's id instead of data.id)
PaymentRowByNotification(w) ==
  [user_id |-> w.userId, mp_payment_id |-> String(<<"num", w.nid>>), status |-> w.status,
   raw |-> [id |-> PayNumOf(w.id), status |-> w.status]]

\* The row handed to payments.insert; raw is payment.body, which carries the
\* provider's own identifier of the payment.
PaymentRow(w) ==
  [user_id |-> w.userId, mp_payment_id |-> String(w.id), status |-> w.status,
   raw |-> [id |-> PayNumOf(w.id), status |-> w.status]]

\* const { type, data } = req.body || {}: nid (the body's own id) and advisory
\* (a status the body carries) are in the request and are not read.
WebhookReceive(d, nid, type, id, advisory) ==
  /\ wh[d].pc \in {"idle", "done"}
  /\ delivered < MaxNotifications
  /\ delivered' = delivered + 1
  /\ LET w == [IdleWh EXCEPT !.variant = "supabase", !.nid = nid, !.type = type,
                              !.id = id, !.advisory = advisory,
                              !.arrived = Arrived(type, id)]
     IN wh' = [wh EXCEPT ![d] =
                 IF IsPaymentNotification(type, id)
                 THEN [w EXCEPT !.pc = "fetch"]
                 ELSE Ack(w)]
  /\ UNCHANGED <<users, payments, provider, session, resp, now>>

\* await mercadopago.payment.findById(data.id): throws when the provider is
\* unreachable or knows no such payment; catch {} swallows it.
WebhookFetch(d, providerUp) ==
  /\ wh[d].pc = "fetch"
  /\ LET w == wh[d]
         payment == provider[PayNumOf(w.id)]
     IN wh' = [wh EXCEPT ![d] =
                 IF ~providerUp \/ payment = NoPayment
                 THEN Ack([w EXCEPT !.failed = TRUE])
                 ELSE LET f == [w EXCEPT !.status = FetchedStatus(w, payment),
                                         !.userId = payment.userId]
                      IN IF HasUserId(f.userId)
                         THEN [f EXCEPT !.pc = "insert"]
                         ELSE Ack(f)]
  /\ UNCHANGED <<users, payments, provider, session, resp, delivered, now>>

\* await supabase.from("payments").insert([...]): the result ({data, error})
\* is not looked at; the client reports failures in it and does not throw.
WebhookInsert(d, storeUp) ==
  /\ wh[d].pc = "insert"
  /\ LET w == wh[d]
         row == PaymentRow(w)
     IN /\ payments' = IF storeUp THEN InsertPayment(payments, row) ELSE payments
        /\ LET g == [w EXCEPT !.ins = IF ~storeUp THEN "error"
                                      ELSE IF payments' # payments THEN "first"
                                      ELSE "duplicate",
                              !.failed = ~storeUp]
           IN wh' = [wh EXCEPT ![d] =
                       IF ShouldSetPaid(w.status)
                       THEN [g EXCEPT !.pc = "update"]
                       ELSE Ack(g)]
  /\ UNCHANGED <<users, provider, session, resp, delivered, now>>

\* await supabase.from("users").update({is_paid: true}).eq("id", userId)
WebhookUpdate(d, storeUp) ==
  /\ wh[d].pc = "update"
  /\ LET w == wh[d]
     IN /\ users' = IF storeUp THEN SetUserPaid(users, w.userId) ELSE users
        /\ wh' = [wh EXCEPT ![d] =
                    Ack([w EXCEPT !.wrote = TRUE, !.failed = w.failed \/ ~storeUp])]
  /\ UNCHANGED <<payments, provider, session, resp, delivered, now>>

\* ---------------------------------------------- POST /pay/webhook (pg variant)
\* console.log(req.body); res.sendStatus(200)
WebhookPg(d, nid, type, id) ==
  /\ wh[d].pc \in {"idle", "done"}
  /\ delivered < MaxNotifications
  /\ delivered' = delivered + 1
  /\ wh' = [wh EXCEPT ![d] =
              Ack([IdleWh EXCEPT !.variant = "pg", !.type = type, !.id = id,
                                 !.arrived = Arrived(type, id)])]
  /\ UNCHANGED <<users, payments, provider, session, resp, now>>

\* ------------------------------------------------------------------- Next
Types == {"payment", "merchant_order"}

\* The notification's own identifier (the body's top-level id).
NotificationIds == {101, 102}

\* A status the notification's body may carry beside data.id.
Advisories == {"none", "approved"}

RegisterStep(E, P) ==
  \E c \in Clients, v \in Variants, email \in E, password \in P, body \in BOOLEAN :
     Register(c, v, email, password, body)

LoginStep(E, P) ==
  \E c \in Clients, v \in Variants, email \in E, password \in P :
     Login(c, v, email, password)

MeStep(K) == \E c \in Clients, kind \in K : Me(c, kind)

PayCreateStep ==
  \E c \in Clients, v \in Variants, body \in 0..Cardinality(Emails), up \in BOOLEAN :
     PayCreate(c, v, body, up)

ProFeatureStep == \E c \in Clients : ProFeature(c)

ProviderStep ==
  \/ \E n \in PayNums, meta \in 0..Cardinality(Emails) : ProviderNewPayment(n, meta)
  \/ \E n \in PayNums, st \in Statuses : ProviderSettle(n, st)

WebhookStep(d) ==
  \/ \E up \in BOOLEAN : WebhookFetch(d, up)
  \/ \E up \in BOOLEAN : WebhookInsert(d, up)
  \/ \E up \in BOOLEAN : WebhookUpdate(d, up)

WebhookArrive(D, N, T, I, A) ==
  \E d \in D, nid \in N, type \in T, id \in I :
     \/ \E advisory \in A : WebhookReceive(d, nid, type, id, advisory)
     \/ WebhookPg(d, nid, type, id)

\* Every request the two servers accept, with every input.
Next ==
  \/ RegisterStep(Emails \cup {""}, Passwords \cup {""})
  \/ LoginStep(Emails \cup {""}, Passwords \cup {""})
  \/ MeStep(HeaderKinds)
  \/ PayCreateStep
  \/ ProFeatureStep
  \/ Tick
  \/ ProviderStep
  \/ WebhookArrive(Deliveries, NotificationIds, Types, DataIds \cup {NoId}, Advisories)
  \/ \E d \in Deliveries : WebhookStep(d)

Spec == Init /\ [][Next]_vars

\* The reconciler under concurrent deliveries: users only register (one
\* password), payment ids arrive as strings, every notification type and
\* every provider move is allowed.
NextReconciler ==
  \/ RegisterStep(Emails, {"pw1"})
  \/ ProviderStep
  \/ WebhookArrive(Deliveries, NotificationIds, Types, {<<"str", 1>>, NoId}, {"none"})
  \/ \E d \in Deliveries : WebhookStep(d)

SpecReconciler == Init /\ [][NextReconciler]_vars

\* The runtime resumes every handler whose awaited call has settled.
FairReconciler == SpecReconciler /\ \A d \in Deliveries : WF_vars(WebhookStep(d))

\* One user and one notification id, every outcome of every awaited call.
NextAck ==
  \/ RegisterStep({"a@x"}, {"pw1"})
  \/ ProviderStep
  \/ WebhookArrive(Deliveries, {101}, Types, DataIds \cup {NoId}, {"none"})
  \/ \E d \in Deliveries : WebhookStep(d)

FairAck == Init /\ [][NextAck]_vars /\ \A d \in Deliveries : WF_vars(WebhookStep(d))

\* Every client request with every input, beside one webhook handler that
\* receives payment notifications (users register with one password and log
\* in with any).
NextGate ==
  \/ RegisterStep(Emails \cup {""}, {"pw1", ""})
  \/ LoginStep(Emails \cup {""}, Passwords \cup {""})
  \/ MeStep({"bearer"})
  \/ PayCreateStep
  \/ ProFeatureStep
  \/ ProviderStep
  \/ WebhookArrive({1}, {101}, {"payment"}, {<<"str", 1>>}, {"none"})
  \/ WebhookStep(1)

SpecGate == Init /\ [][NextGate]_vars

\* The account routes over a week and more: register, login, /auth/me under
\* every kind of Authorization header, and the clock.
NextAuth ==
  \/ RegisterStep(Emails, Passwords)
  \/ LoginStep(Emails, Passwords)
  \/ MeStep(HeaderKinds)
  \/ Tick

SpecAuth == Init /\ [][NextAuth]_vars

\* Tokens over a week and more: one user registers, logs in and calls
\* /auth/me under every kind of Authorization header while the clock runs
\* and one webhook handler receives the notifications of their payment.
NextToken ==
  \/ RegisterStep({"a@x"}, {"pw1"})
  \/ LoginStep({"a@x"}, {"pw1"})
  \/ MeStep(HeaderKinds)
  \/ Tick
  \/ ProviderStep
  \/ WebhookArrive({1}, {101}, {"payment"}, {<<"str", 1>>}, {"none"})
  \/ WebhookStep(1)

SpecToken == Init /\ [][NextToken]_vars

\* One webhook handler and notifications whose bodies differ beside type and
\* data.id: in their own id and in a status they carry.
NextTrust ==
  \/ RegisterStep(Emails, {"pw1"})
  \/ ProviderStep
  \/ WebhookArrive({1}, NotificationIds, {"payment"}, {<<"str", 1>>}, Advisories)
  \/ WebhookStep(1)

SpecTrust == Init /\ [][NextTrust]_vars

\* ================================================================== claims
\* The delivery that takes the step (every webhook step changes its slot).
Moves(d) == wh'[d] # wh[d]

RowsKeyed(ps, key) == {r \in ps : r.mp_payment_id = key}

\* The rows recorded for the payment the provider knows as n.
RowsFor(n) == {r \in payments : r.raw.id = n}

\* The store as one complete delivery of notification w leaves it: exactly one
\* row under the payment id and, for an approved payment, the owner entitled.
ReconciledIn(w, us, ps) ==
  /\ Cardinality(RowsKeyed(ps, String(w.id))) = 1
  /\ w.status = "approved" => us[w.userId].is_paid

\* C1: idempotent reconciliation. A delivery that runs to completion with no
\* store failure leaves exactly one PaymentRecord under its payment id (and the
\* owner entitled when the payment is approved); a store step of a delivery
\* that finds the store already in that condition changes neither the payments
\* nor any user row, so N deliveries leave what one leaves and the paid flag
\* goes false->true at most once.
C1_IdempotentReconciliation ==
  [][\A d \in Deliveries :
       (Moves(d) /\ wh[d].pc \in {"insert", "update"}) =>
          /\ (wh'[d].pc = "done" /\ ~wh'[d].failed)
                => ReconciledIn(wh[d], users', payments')
          /\ ReconciledIn(wh[d], users, payments)
                => (users' = users /\ payments' = payments)]_vars

\* A re-delivery of an approved payment has completed as a duplicate, with the
\* row and the entitlement of the first delivery in place.
C1_Witness ==
  \E d \in Deliveries :
     /\ wh[d].pc = "done" /\ wh[d].ins = "duplicate" /\ wh[d].wrote /\ ~wh[d].failed
     /\ wh[d].status = "approved"
     /\ users[wh[d].userId].is_paid
     /\ \E r \in payments : r.user_id = wh[d].userId /\ r.status = "approved"

\* C2: the users write is issued only by a delivery whose insert was the
\* first insertion for its payment id; a delivery whose insert found the id
\* already present issues no users write. (Stated for the deliveries whose
\* insert reached the store.)
C2_WriteOnlyOnFirstInsert ==
  \A d \in Deliveries : (wh[d].wrote /\ wh[d].ins # "error") => wh[d].ins = "first"

\* C3: at most one PaymentRecord per provider payment identifier, in every
\* reachable state, whatever the interleaving of the deliveries.
C3_OneRecordPerPayment ==
  \A n \in PayNums : Cardinality(RowsFor(n)) <= 1

\* Two deliveries for one payment raced through the insert: one inserted, the
\* other was refused, and both are still being handled.
C3_Witness ==
  \E d1, d2 \in Deliveries :
     /\ d1 # d2
     /\ wh[d1].pc = "update" /\ wh[d2].pc = "update"
     /\ PayNumOf(wh[d1].id) = PayNumOf(wh[d2].id)
     /\ wh[d1].ins = "first" /\ wh[d2].ins = "duplicate"

\* C4: a paid user always has an approved PaymentRecord of their own, also
\* when the provider's status changed between the deliveries for one payment.
\* (Stated for the users who have a PaymentRecord at all.)
C4_PaidImpliesApprovedRecord ==
  \A u \in UserIds :
     (users[u].is_paid /\ \E r \in payments : r.user_id = u)
        => \E r \in payments : r.user_id = u /\ r.status = "approved"

\* C5: a notification that arrived when the provider already reported the
\* payment approved for user u, and was processed to completion, leaves u paid.
C5_NoApprovedPaymentLost ==
  \A d \in Deliveries :
     (wh[d].pc = "done" /\ wh[d].arrived # NoUser) => users[wh[d].arrived].is_paid

\* C6: the paid flag is monotone: a user row that is paid stays, and stays paid.
C6_PaidMonotone ==
  [][\A u \in DOMAIN users :
       users[u].is_paid => (u \in DOMAIN users' /\ users'[u].is_paid)]_vars

\* A step of a client request: every webhook step changes its slot of wh and
\* every provider step changes provider; register, login, /auth/me,
\* /pay/create and /pro/feature change neither.
ClientMoves == wh' = wh /\ provider' = provider

\* C7: register, login, /auth/me, /pay/create and /pro/feature leave the paid
\* flag of every existing user as it was, and a user row they create starts
\* with paid = false whatever the request body says.
C7_ClientsNeverWritePaid ==
  [][ClientMoves =>
       /\ \A u \in DOMAIN users :
             u \in DOMAIN users' /\ users'[u].is_paid = users[u].is_paid
       /\ \A u \in DOMAIN users' \ DOMAIN users : ~users'[u].is_paid]_vars

\* A user registered, and was issued a token, beside a user who has paid.
C7_Witness ==
  /\ Len(users) = 2
  /\ users[1].is_paid /\ ~users[2].is_paid
  /\ session["c1"].claim.id = 2
  /\ resp["c1"].status = 200

\* A paid user stayed paid while another registered and logged in.
C6_Witness ==
  /\ Len(users) = 2
  /\ users[1].is_paid
  /\ session["c1"].claim.id = 2 /\ session["c1"].claim.password_hash # NoHash
  /\ \E d \in Deliveries : wh[d].pc = "done" /\ wh[d].wrote

\* C8: every webhook request is answered, and with 200: a request being
\* handled leads to its acknowledgement, and the status sent is never another.
C8_AlwaysAcknowledged ==
  /\ [](\A d \in Deliveries : wh[d].resp \in {0, 200} /\ (wh[d].pc = "done" => wh[d].resp = 200))
  /\ \A d \in Deliveries :
        (wh[d].pc \in {"fetch", "insert", "update"}) ~> (wh[d].pc = "done" /\ wh[d].resp = 200)

\* A delivery whose provider or store call failed was acknowledged with 200.
C8_Witness ==
  \E d \in Deliveries : wh[d].pc = "done" /\ wh[d].failed /\ wh[d].resp = 200

\* C9: a notification whose fetched record carries no userId is acknowledged
\* with 200 at once, no payments row is ever written for it and the step
\* that handles it leaves every user row and the payments table as they were.
C9_Unattributable ==
  /\ [](\A d \in Deliveries :
          (wh[d].status # "none" /\ wh[d].userId = NoUser) =>
             (wh[d].pc = "done" /\ wh[d].resp = 200 /\ wh[d].ins = "none" /\ ~wh[d].wrote))
  /\ [](\A r \in payments : r.user_id # NoUser)
  /\ [][\A d \in Deliveries :
          (Moves(d) /\ wh[d].pc = "fetch" /\ wh'[d].status # "none" /\ wh'[d].userId = NoUser)
             => (users' = users /\ payments' = payments)]_vars

\* An unattributable payment was fetched and acknowledged while a user exists.
C9_Witness ==
  /\ users # <<>>
  /\ \E d \in Deliveries :
        wh[d].pc = "done" /\ wh[d].status = "approved" /\ wh[d].userId = NoUser /\ wh[d].resp = 200

\* C10: /pro/feature answers from the token's snapshot: 402 for a token whose
\* claim says unpaid (whatever the stored flag says by then), 200 for one whose
\* claim says paid; and whenever a client is handed a new token (by login or
\* register) its claim carries the stored flag as it is at that moment.
C10_GateUsesTokenSnapshot ==
  [][\A c \in Clients :
       /\ (ProFeature(c) /\ authRequired(c))
             => resp'[c].status = IF ReqUser(c).is_paid THEN 200 ELSE 402
       /\ (session'[c] # session[c])
             => LET claim == session'[c].claim
                IN /\ claim.id \in DOMAIN users'
                   /\ claim.email = users'[claim.id].email
                   /\ claim.is_paid = users'[claim.id].is_paid]_vars

\* A token issued before the payment is refused with 402 although the stored
\* flag of its user is true.
C10_Witness ==
  \E c \in Clients :
     /\ resp[c].status = 402
     /\ session[c] # NoToken /\ ~session[c].claim.is_paid
     /\ users[session[c].claim.id].is_paid

\* A notification for a payment the provider already reported approved for
\* user u has been handled to completion.
Activated(u) == \E d \in Deliveries : wh[d].pc = "done" /\ wh[d].arrived = u

\* C11: end-to-end activation. Once a notification {type: payment, data.id: p}
\* whose payment the provider reports approved for a user has been handled,
\* every login of that user that succeeds hands out a token whose claim says
\* paid, and /pro/feature lets that token through.
C11_EndToEndActivation ==
  [][\A c \in Clients, v \in Variants, email \in Emails, password \in Passwords :
       (Login(c, v, email, password) /\ resp'[c].status = 200
          /\ Activated(resp'[c].user.id))
       => (resp'[c].token.claim.is_paid /\ paidRequired(resp'[c].token.claim))]_vars

\* The header is "Bearer " followed by a token whose signature is the one
\* made under the server's key and whose expiry lies ahead.
BearerOfValidToken(auth) ==
  /\ auth.scheme = "Bearer "
  /\ auth.token.sig = Sign(auth.token.claim, JWT_SECRET)
  /\ now < auth.token.claim.exp

\* C12 (as claimed): a request reaches /auth/me only with a Bearer header
\* whose token verifies, and is then served as the user of the verified
\* claim; every other request -- no prefix, malformed token, altered
\* signature, expired token -- gets one and the same response.
C12_UniformRejection ==
  [][\A c \in Clients, kind \in HeaderKinds :
       Me(c, kind) =>
          LET auth == Authorization(c, kind)
          IN IF BearerOfValidToken(auth)
             THEN /\ resp'[c].status = 200
                  /\ resp'[c].user = PublicRow(users, auth.token.claim.id)
                  /\ resp'[c].user.email = auth.token.claim.email
             ELSE resp'[c] = Err(401, "Unauthorized")]_vars

\* C12 (amended): a request reaches /auth/me only with a Bearer header whose
\* token verifies, and is then served as the user of the verified claim;
\* every other request is refused with status 401, with the body
\* "Unauthorized" when the header lacks the Bearer prefix and with the body
\* "Invalid token" -- the same for a malformed token, an altered signature
\* and an expired token -- when it has the prefix.
C12_AuthGate ==
  [][\A c \in Clients, kind \in HeaderKinds :
       Me(c, kind) =>
          LET auth == Authorization(c, kind)
          IN IF BearerOfValidToken(auth)
             THEN /\ resp'[c].status = 200
                  /\ resp'[c].user = PublicRow(users, auth.token.claim.id)
                  /\ resp'[c].user.email = auth.token.claim.email
             ELSE resp'[c] = Err(401, IF auth.scheme = "Bearer " THEN "Invalid token"
                                      ELSE "Unauthorized")]_vars

\* A client whose token has expired was refused with "Invalid token".
C12_Witness ==
  \E c \in Clients :
     /\ session[c] # NoToken
     /\ now >= session[c].claim.exp
     /\ resp[c] = Err(401, "Invalid token")

\* The row stored under an email.
RowOf(email) == users[CHOOSE i \in FindUserByEmail(email) : TRUE]

\* The login is one that must fail: no user has the email, or the password is
\* not the user's.
BadCredentials(email, password) ==
  \/ ~EmailTaken(email)
  \/ ~CompareSync(password, RowOf(email).password_hash)

\* C13: no credential oracle. In every state, login with an existing email
\* and a wrong password is answered exactly (status and body) as login with an
\* email of no user, in either variant; and a login that fails for either
\* reason is answered 401 "Invalid credentials" and changes no user row, no
\* payment row and no token.
C13_NoCredentialOracle ==
  /\ [](\A v \in Variants, e1 \in Emails, e2 \in Emails, password \in Passwords :
          (EmailTaken(e1) /\ ~CompareSync(password, RowOf(e1).password_hash)
             /\ ~EmailTaken(e2))
          => LoginResult(v, e1, password) = LoginResult(v, e2, password))
  /\ [][\A c \in Clients, v \in Variants, email \in Emails, password \in Passwords :
          (Login(c, v, email, password) /\ BadCredentials(email, password))
          => /\ resp'[c] = Err(401, "Invalid credentials")
             /\ UNCHANGED <<users, payments, session>>]_vars

\* A login was refused while one email is registered and the other is not:
\* the response is the one both failures give.
C13_Witness ==
  \E c \in Clients :
     /\ Len(users) = 1
     /\ session[c] # NoToken
     /\ resp[c] = Err(401, "Invalid credentials")

\* C14: duplicate registration. No two user rows ever share an email; a
\* register call for an email that has a row is answered 409 and leaves the
\* users table -- the existing row's id, hash and paid flag -- as it was; a
\* register call for an email that has none appends exactly one row for it
\* and is answered 200. (Each call issues one insert, which the store applies
\* atomically, so two concurrent calls take effect in one order or the other.)
C14_DuplicateRegistration ==
  /\ [](\A i \in UserIds, j \in UserIds : users[i].email = users[j].email => i = j)
  /\ [][\A c \in Clients, v \in Variants, email \in Emails, password \in Passwords,
           body \in BOOLEAN :
          Register(c, v, email, password, body) =>
             IF EmailTaken(email)
             THEN /\ resp'[c] = Err(409, "Email already registered")
                  /\ users' = users
             ELSE /\ resp'[c].status = 200
                  /\ Len(users') = Len(users) + 1
                  /\ SubSeq(users', 1, Len(users)) = users
                  /\ users'[Len(users')].email = email]_vars

\* A second register call for a registered email was answered 409; the row of
\* the first call, with the hash of the first call's password, is in place.
C14_Witness ==
  \E c \in Clients :
     /\ resp[c] = Err(409, "Email already registered")
     /\ Len(users) = 1
     /\ session[c].claim.id = 1
     /\ users[1].password_hash = HashSync("pw2")

\* Same user id, email and paid snapshot.
Equivalent(claim, user) ==
  /\ claim.id = user.id
  /\ claim.email = user.email
  /\ claim.is_paid = user.is_paid

\* C15: token round-trip. A token handed out by register or login is stamped
\* with the time of issue; verified at any time strictly before issue + 7
\* days it yields a claim with the id, email and paid flag of the user it was
\* issued for; verified at or after that time it yields an error; and with
\* its signature segment altered it yields an error at any time.
C15_TokenRoundTrip ==
  /\ [](\A c \in Clients :
          resp[c].token # NoToken =>
             LET token == resp[c].token
                 r == jwtVerify(token, JWT_SECRET, now)
             IN /\ now < token.claim.iat + TokenTTL
                      => (r.ok /\ Equivalent(r.claim, resp[c].user))
                /\ now >= token.claim.iat + TokenTTL
                      => (~r.ok /\ r.claim = NoClaim)
                /\ ~jwtVerify(TamperSig(token), JWT_SECRET, now).ok)
  /\ [][\A c \in Clients :
          (resp'[c].token # NoToken /\ resp'[c] # resp[c])
          => (resp'[c].token.claim.iat = now /\ session'[c] = resp'[c].token)]_vars

\* The token of a paid user, issued a week ago to the day: it has just
\* expired.
C15_Witness ==
  \E c \in Clients :
     /\ resp[c].token # NoToken
     /\ resp[c].token.claim.is_paid
     /\ resp[c].token.claim.iat > 0
     /\ now = resp[c].token.claim.iat + TokenTTL

\* The statuses the provider has reported for a payment up to now (a payment
\* is pending until it is settled).
ReportedSoFar(n) ==
  IF provider[n] = NoPayment THEN {} ELSE {"pending", provider[n].status}

\* C16: fetch-then-trust. What a notification leaves in the store is made of
\* data.id and of the record fetched for it, and of nothing else in the
\* body: every PaymentRecord carries a status the provider reported for that
\* payment and the provider's userId for it; a user is paid only if the
\* provider reports an approved payment of theirs; and the status taken and
\* the row built for a notification being handled are the same whatever the
\* notification's own id and whatever status its body carries.
C16_FetchThenTrust ==
  /\ \A r \in payments :
        /\ r.status \in ReportedSoFar(r.raw.id)
        /\ r.user_id = provider[r.raw.id].userId
        /\ r.mp_payment_id = String(<<"num", r.raw.id>>)
  /\ \A u \in UserIds :
        users[u].is_paid =>
           \E n \in PayNums : provider[n].status = "approved" /\ provider[n].userId = u
  /\ \A d \in Deliveries, nid \in NotificationIds, advisory \in Advisories :
        LET w == wh[d]
            other == [w EXCEPT !.nid = nid, !.advisory = advisory]
        IN /\ w.pc = "fetch" =>
                 FetchedStatus(other, provider[PayNumOf(w.id)])
                    = FetchedStatus(w, provider[PayNumOf(w.id)])
           /\ w.pc = "insert" => PaymentRow(other) = PaymentRow(w)
           /\ w.pc \in {"insert", "update"} => w.status \in ReportedSoFar(PayNumOf(w.id))

\* A notification whose body said "approved" for a payment the provider
\* reports rejected was handled: the record says rejected, the user is unpaid.
C16_Witness ==
  \E d \in Deliveries :
     /\ wh[d].pc = "done" /\ wh[d].advisory = "approved" /\ wh[d].ins = "first"
     /\ wh[d].status = "rejected"
     /\ \E r \in payments : r.user_id = wh[d].userId /\ r.status = "rejected"
     /\ ~users[wh[d].userId].is_paid

\* C17: the payload of every token handed out by register and by login is
\* the user's id, email and paid flag (with the times of issue and expiry):
\* the credential hash of the row is not in it.
C17_ClaimHasNoHash ==
  \A c \in Clients :
     session[c] # NoToken =>
        /\ session[c].claim.password_hash = NoHash
        /\ session[c].claim.id \in UserIds
        /\ session[c].claim.email = users[session[c].claim.id].email

\* C18: the userId that /pay/create hands to the provider is the id in the
\* verified token of the request, whatever the body names; and a request that
\* opens an intent, or fails to with 500, leaves every user row and the
\* payments table as they were.
C18_IntentCorrelation ==
  [][\A c \in Clients :
       /\ (ClientMoves /\ resp'[c].meta # NoUser)
             => /\ Verifies(session[c])
                /\ resp'[c].meta = session[c].claim.id
                /\ resp'[c].status = 200
                /\ users' = users /\ payments' = payments
       /\ (ClientMoves /\ resp'[c].status = 500)
             => /\ resp'[c].meta = NoUser
                /\ users' = users /\ payments' = payments]_vars

\* The second of two users opened an intent: it is stamped with their id.
C18_Witness ==
  \E c \in Clients :
     /\ Len(users) = 2
     /\ session[c].claim.id = 2
     /\ resp[c].status = 200 /\ resp[c].meta = 2

\* Nothing was fetched, inserted or written for the delivery, and it was
\* answered 200.
AckedUntouched(w) ==
  /\ w.pc = "done" /\ w.resp = 200
  /\ w.status = "none" /\ w.ins = "none" /\ ~w.wrote /\ ~w.failed

\* C19: a notification whose type is not "payment", or that carries no
\* data.id, is answered 200 in the step that receives it, with no provider
\* fetch, no payments insert and no users write; only a notification of
\* type "payment" with a data.id is ever taken further, and no arrival by
\* itself changes a user row or the payments table.
C19_IgnoredNotification ==
  /\ [](\A d \in Deliveries :
          /\ wh[d].pc \in {"fetch", "insert", "update"}
                => (wh[d].type = "payment" /\ wh[d].id # NoId)
          /\ (wh[d].pc = "done" /\ wh[d].type # "payment") => AckedUntouched(wh[d]))
  /\ [][\A d \in Deliveries :
          (Moves(d) /\ wh[d].pc \in {"idle", "done"})
          => /\ users' = users /\ payments' = payments
             /\ \/ AckedUntouched(wh'[d])
                \/ wh'[d].pc = "fetch" /\ wh'[d].type = "payment" /\ wh'[d].id # NoId]_vars

\* A notification of another type was answered 200 while the provider
\* reports an approved payment of a user: nothing was recorded, the user is
\* unpaid.
C19_Witness ==
  \E d \in Deliveries :
     /\ AckedUntouched(wh[d]) /\ wh[d].type = "merchant_order"
     /\ wh[d].variant = "supabase"
     /\ provider[1].status = "approved" /\ provider[1].userId \in UserIds
     /\ ~users[provider[1].userId].is_paid
     /\ payments = {}

====
